---- MODULE Spec2Model ----
(***************************************************************************)
(* Model of demo.py: the Q&A generation pipeline (question generator,      *)
(* answer generator, detail extractor, orchestrator) behind the            *)
(* asynchronous job API (POST /api/generate, GET /api/status/{job_id}).    *)
(*                                                                         *)
(* Texts exchanged with the LLM are sequences of chunks: a markdown fence  *)
(* "```json", a bare fence "```", whitespace, other text, or the text of   *)
(* one complete JSON document.  Fence stripping is computed on the chunks  *)
(* as the code computes it on characters; json.loads accepts a text that   *)
(* is exactly one JSON document.                                           *)
(*                                                                         *)
(* demo.py names BackgroundTasks in generate_qna without importing it; the *)
(* model takes it to be fastapi.BackgroundTasks, which runs a plain `def`  *)
(* task in the thread pool after the response has been sent.               *)
(***************************************************************************)
EXTENDS Integers, Sequences, FiniteSets, TLC

VARIABLES jobs, tasks, submitted, http_response, qg, ex

vars == <<jobs, tasks, submitted, http_response, qg, ex>>

---------------------------------------------------------------------------
(* Bounds *)

\* questions asked of the question generator (scaled down from 20)
NumQuestions == 2
\* background tasks ever scheduled
MaxTasks == 2
\* fence, whitespace and noise chunks around the body of a reply
MaxDeco == 3
\* largest question count tried on the question generator alone
MaxN == 2
\* largest target pair count passed to the orchestrator on its own
MaxPairs == 3

JobIds == {"a", "b"}
\* (question_prompt, answer_prompt) of a submission
PromptPairs == {<<"qp1", "ap1">>, <<"qp2", "ap2">>}
QNames == <<"q1", "q2", "q3", "q4", "q5", "q6">>

---------------------------------------------------------------------------
(* JSON values and texts *)

\* a value stored under a key of a JSON object
FV(k, s, l) == [k |-> k, s |-> s, l |-> l]
Absent == FV("absent", "", <<>>)
Str(s) == FV("str", s, <<>>)
List(l) == FV("list", "", l)

\* a JSON document: a string, an array of strings, or an object
JDoc(t, s, l, a, f, p, c) ==
    [t |-> t, s |-> s, l |-> l, answers |-> a, facet |-> f, pros |-> p, cons |-> c]
JStr(s) == JDoc("str", s, <<>>, Absent, Absent, Absent, Absent)
JList(l) == JDoc("list", "", l, Absent, Absent, Absent, Absent)
JDict(a, f, p, c) == JDoc("dict", "", <<>>, a, f, p, c)
NoDoc == JDoc("none", "", <<>>, Absent, Absent, Absent, Absent)

Chunk(kind, doc) == [kind |-> kind, doc |-> doc]
FJ == Chunk("fj", NoDoc)
F == Chunk("f", NoDoc)
WS == Chunk("ws", NoDoc)
X == Chunk("x", NoDoc)
J(doc) == Chunk("json", doc)

\* an LLM call: it raised, or it returned message content
Raised == [error |-> TRUE, content |-> <<>>]
Content(text) == [error |-> FALSE, content |-> text]

RECURSIVE lstrip(_)
lstrip(text) ==
    IF text # <<>> /\ Head(text).kind = "ws" THEN lstrip(Tail(text)) ELSE text

RECURSIVE rstrip(_)
rstrip(text) ==
    IF text # <<>> /\ text[Len(text)].kind = "ws"
    THEN rstrip(SubSeq(text, 1, Len(text) - 1))
    ELSE text

strip(text) == rstrip(lstrip(text))

startswith(text, kind) == text # <<>> /\ Head(text).kind = kind
endswith(text, kind) == text # <<>> /\ text[Len(text)].kind = kind

StripFence_OpenOnly(content) ==
    LET raw == strip(content)
    IN  IF startswith(raw, "fj") THEN strip(Tail(raw)) ELSE raw

\* the fence stripping of generate_bulk_questions and extract_answer_details
StripFence(content) ==
    LET raw == strip(content)
        a == IF startswith(raw, "fj") THEN strip(Tail(raw)) ELSE raw
    IN  IF endswith(a, "f") THEN strip(SubSeq(a, 1, Len(a) - 1)) ELSE a

\* json.loads: the document, or NoDoc for a JSONDecodeError
json_loads(text) ==
    IF Len(text) = 1 /\ text[1].kind = "json" THEN text[1].doc ELSE NoDoc

\* Python None against a returned value
NoneOf(v) == [none |-> TRUE, val |-> v]
Some(v) == [none |-> FALSE, val |-> v]

---------------------------------------------------------------------------
(* The three LLM wrappers, as functions of the LLM's reply *)

generate_bulk_questions_AnyLength(resp, num_questions) ==
    IF resp.error THEN NoneOf(<<>>)
    ELSE LET questions == json_loads(StripFence(resp.content))
         IN  IF questions.t = "list" THEN Some(questions.l) ELSE NoneOf(<<>>)

generate_bulk_questions(resp, num_questions) ==
    IF resp.error THEN NoneOf(<<>>)
    ELSE LET questions == json_loads(StripFence(resp.content))
         IN  IF questions = NoDoc THEN NoneOf(<<>>)
             ELSE IF ~(questions.t = "list" /\ Len(questions.l) = num_questions)
                  THEN NoneOf(<<>>)
                  ELSE Some(questions.l)

generate_answer_for_question(resp) ==
    IF resp.error THEN NoneOf(<<>>) ELSE Some(strip(resp.content))

\* truth value of a JSON value in `if not data.get(...)`
Truthy(v) == (v.k = "str" /\ v.s # "") \/ (v.k = "list" /\ v.l # <<>>)

IsListOfLen(v, n) == v.k = "list" /\ Len(v.l) = n

extract_answer_details_NoProsCheck(resp) ==
    IF resp.error THEN NoneOf(NoDoc)
    ELSE LET extracted_raw == StripFence(resp.content)
             data == json_loads(extracted_raw)
         IN  IF extracted_raw = <<>> \/ data = NoDoc \/ data.t # "dict"
             THEN NoneOf(NoDoc)
             ELSE IF ~IsListOfLen(data.facet, 1) \/ ~IsListOfLen(data.cons, 2)
                     \/ ~Truthy(data.answers)
                  THEN NoneOf(NoDoc)
                  ELSE Some(data)

extract_answer_details(resp) ==
    IF resp.error THEN NoneOf(NoDoc)
    ELSE LET extracted_raw == StripFence(resp.content)
             data == json_loads(extracted_raw)
         IN  IF extracted_raw = <<>> THEN NoneOf(NoDoc)
             ELSE IF data = NoDoc THEN NoneOf(NoDoc)
             ELSE IF data.t # "dict" THEN NoneOf(NoDoc)
             ELSE IF ~IsListOfLen(data.facet, 1) THEN NoneOf(NoDoc)
             ELSE IF ~IsListOfLen(data.pros, 3) THEN NoneOf(NoDoc)
             ELSE IF ~IsListOfLen(data.cons, 2) THEN NoneOf(NoDoc)
             ELSE IF ~Truthy(data.answers) THEN NoneOf(NoDoc)
             ELSE Some(data)

---------------------------------------------------------------------------
(* The job API and the background task *)

QNARequest ==
    { [id |-> id, raw_text |-> "ctx", question_prompt |-> pp[1], answer_prompt |-> pp[2]] :
        id \in JobIds, pp \in PromptPairs }

\* replies the LLM gives to the bulk-question prompt
GoodQuestions == SubSeq(QNames, 1, NumQuestions)
GoodQuestionsReply == Content(<<FJ, WS, J(JList(GoodQuestions)), WS, F>>)
QuestionResponses ==
    { Raised,
      GoodQuestionsReply,
      Content(<<J(JList(SubSeq(QNames, 1, NumQuestions - 1)))>>),
      Content(<<J(JList(SubSeq(QNames, 1, NumQuestions + 1)))>>),
      Content(<<X, J(JList(GoodQuestions))>>),
      Content(<<J(JStr("q1"))>>) }

\* replies the LLM gives to the answer prompt
GoodAnswerReply == Content(<<WS, X, WS>>)
AnswerResponses ==
    { Raised, GoodAnswerReply, Content(<<WS>>) }

\* replies the LLM gives to the extraction prompt
GoodDetails ==
    JDict(Str("ans"), List(<<"f1">>), List(<<"p1", "p2", "p3">>), List(<<"c1", "c2">>))
GoodDetailsReply == Content(<<FJ, WS, J(GoodDetails), WS, F>>)
ExtractResponses ==
    { Raised,
      GoodDetailsReply,
      Content(<<J([GoodDetails EXCEPT !.pros = List(<<"p1", "p2">>)])>>),
      Content(<<J([GoodDetails EXCEPT !.answers = Str("")])>>),
      Content(<<FJ, F>>) }

\* outcomes of requests.post to TARGET_API_URL
PostOutcomes == {"200", "500", "raise"}

\* json.dumps(final_container, indent=2): the container as text
json_dumps(container) == [text |-> container]

Put_Clobber(d, job_id, entry) == [j \in {job_id} |-> entry]

\* jobs[job_id] = entry
Put(d, job_id, entry) ==
    [j \in DOMAIN d \cup {job_id} |-> IF j = job_id THEN entry ELSE d[j]]

Entry_Bare(status, result) == [status |-> status, result |-> <<>>]

\* a jobs entry: {"status": ..., "result": ...}
Entry(status, result) == [status |-> status, result |-> result]

\* an HTTP response: its code and the fields of its body (of a result, whether
\* it is present)
Response(endpoint, code, job_id, status, has_result) ==
    [endpoint |-> endpoint, code |-> code, job_id |-> job_id,
     status |-> status, has_result |-> has_result]
NoResponse == Response("none", 0, "", "", FALSE)

EmptyContainer ==
    [id |-> "", question_prompt |-> "", answer_prompt |-> "", data |-> [qa |-> <<>>]]

\* the task's function returns or unwinds: its locals are gone
Ended(t, pc) ==
    [t EXCEPT !.pc = pc, !.final_container = EmptyContainer, !.questions = <<>>,
              !.idx = 0, !.answer_text = <<>>, !.ok = {}]

\* a background task added by background_tasks.add_task, not yet run; num_pairs
\* is the target count process_qna_job passes on, asked the count the question
\* generator was called with
NewTask(request) ==
    [job_id |-> request.id,
     raw_text |-> request.raw_text,
     question_prompt |-> request.question_prompt,
     answer_prompt |-> request.answer_prompt,
     pc |-> "scheduled",
     num_pairs |-> NumQuestions,
     asked |-> 0,
     final_container |-> EmptyContainer,
     questions |-> <<>>,
     idx |-> 0,
     answer_text |-> <<>>,
     warned |-> FALSE,
     push_error |-> FALSE,
     calls |-> [q |-> 0, a |-> 0, e |-> 0, d |-> 0],
     ok |-> {}]

generate_qna_Inline(request) ==
    /\ jobs' = Put(jobs, request.id, Entry("processing", <<>>))
    /\ tasks' = Append(tasks, [NewTask(request) EXCEPT !.pc = "qgen_call", !.calls.q = 1])
    /\ submitted' = submitted \cup {request.id}
    /\ http_response' = Response("generate", 200, request.id, "processing", FALSE)
    /\ UNCHANGED <<qg, ex>>

\* POST /api/generate
generate_qna(request) ==
    /\ jobs' = Put(jobs, request.id, Entry("processing", <<>>))
    /\ tasks' = Append(tasks, NewTask(request))
    /\ submitted' = submitted \cup {request.id}
    /\ http_response' = Response("generate", 200, request.id, "processing", FALSE)
    /\ UNCHANGED <<qg, ex>>

\* what get_status answers: HTTPException(404), or jobs[job_id]
StatusOf_NeedsResult(job_id) ==
    IF job_id \notin DOMAIN jobs \/ jobs[job_id].result = <<>>
    THEN Response("status", 404, job_id, "", FALSE)
    ELSE Response("status", 200, job_id, jobs[job_id].status, TRUE)

StatusOf(job_id) ==
    IF job_id \notin DOMAIN jobs
    THEN Response("status", 404, job_id, "", FALSE)
    ELSE Response("status", 200, job_id, jobs[job_id].status,
                  jobs[job_id].result # <<>>)

\* GET /api/status/{job_id}
get_status(job_id) ==
    /\ http_response' = StatusOf(job_id)
    /\ UNCHANGED <<jobs, tasks, submitted, qg, ex>>

\* process_qna_job starts: the container is set up and the bulk-question call issued
StartTask(i) ==
    /\ tasks[i].pc = "scheduled"
    /\ tasks' = [tasks EXCEPT ![i] =
          [@ EXCEPT !.pc = "qgen_call",
                    !.final_container =
                        [id |-> tasks[i].job_id,
                         question_prompt |-> tasks[i].question_prompt,
                         answer_prompt |-> tasks[i].answer_prompt,
                         data |-> [qa |-> <<>>]],
                    !.asked = NumQuestions,
                    !.calls.q = @ + 1]]
    /\ UNCHANGED <<jobs, submitted, http_response, qg, ex>>

\* the next loop iteration issues its answer call; after the last one the
\* container is returned to process_qna_job, which issues the delivery POST
Advance(t) ==
    IF t.idx < Len(t.questions)
    THEN [t EXCEPT !.idx = @ + 1, !.pc = "answer_call", !.answer_text = <<>>,
                   !.calls.a = @ + 1]
    ELSE [t EXCEPT !.pc = "post_call",
                   !.answer_text = <<>>,
                   !.warned = (Len(t.final_container.data.qa) # t.num_pairs),
                   !.calls.d = @ + 1]

\* the bulk-question call returns
QuestionsReturn(i, resp) ==
    /\ tasks[i].pc = "qgen_call"
    /\ LET questions == generate_bulk_questions(resp, NumQuestions)
       IN  IF questions.none \/ questions.val = <<>>
           THEN /\ tasks' = [tasks EXCEPT ![i] = Ended(@, "done")]
                /\ jobs' = Put(jobs, tasks[i].job_id, Entry("failed", <<>>))
           ELSE /\ tasks' = [tasks EXCEPT ![i] =
                               Advance([@ EXCEPT !.questions = questions.val])]
                /\ UNCHANGED jobs
    /\ UNCHANGED <<submitted, http_response, qg, ex>>

AnswerReturn_Abort(i, resp) ==
    /\ tasks[i].pc = "answer_call"
    /\ LET answer_text == generate_answer_for_question(resp)
       IN  IF answer_text.none \/ answer_text.val = <<>>
           THEN /\ tasks' = [tasks EXCEPT ![i] = Ended(@, "done")]
                /\ jobs' = Put(jobs, tasks[i].job_id, Entry("failed", <<>>))
           ELSE /\ tasks' = [tasks EXCEPT ![i] =
                               [@ EXCEPT !.pc = "extract_call",
                                         !.answer_text = answer_text.val,
                                         !.calls.e = @ + 1]]
                /\ UNCHANGED jobs
    /\ UNCHANGED <<submitted, http_response, qg, ex>>

AnswerReturn_Retry(i, resp) ==
    /\ tasks[i].pc = "answer_call"
    /\ LET answer_text == generate_answer_for_question(resp)
       IN  IF answer_text.none \/ answer_text.val = <<>>
           THEN tasks' = [tasks EXCEPT ![i] =
                            IF @.calls.a < 2 * NumQuestions
                            THEN [@ EXCEPT !.calls.a = @ + 1]
                            ELSE Advance(@)]
           ELSE tasks' = [tasks EXCEPT ![i] =
                            [@ EXCEPT !.pc = "extract_call",
                                      !.answer_text = answer_text.val,
                                      !.calls.e = @ + 1]]
    /\ UNCHANGED <<jobs, submitted, http_response, qg, ex>>

AnswerReturn_ExtractAnyway(i, resp) ==
    /\ tasks[i].pc = "answer_call"
    /\ LET answer_text == generate_answer_for_question(resp)
       IN  tasks' = [tasks EXCEPT ![i] =
                       [@ EXCEPT !.pc = "extract_call",
                                 !.answer_text = answer_text.val,
                                 !.calls.e = @ + 1]]
    /\ UNCHANGED <<jobs, submitted, http_response, qg, ex>>

\* the answer call for question idx returns
AnswerReturn(i, resp) ==
    /\ tasks[i].pc = "answer_call"
    /\ LET answer_text == generate_answer_for_question(resp)
       IN  IF answer_text.none \/ answer_text.val = <<>>
           THEN tasks' = [tasks EXCEPT ![i] = Advance(@)]
           ELSE tasks' = [tasks EXCEPT ![i] =
                            [@ EXCEPT !.pc = "extract_call",
                                      !.answer_text = answer_text.val,
                                      !.calls.e = @ + 1]]
    /\ UNCHANGED <<jobs, submitted, http_response, qg, ex>>

qa_pair(question, extracted) ==
    [question |-> question, answers |-> extracted.answers, facet |-> extracted.facet,
     pros |-> extracted.pros, cons |-> extracted.cons]

ExtractReturn_Prepend(i, resp) ==
    /\ tasks[i].pc = "extract_call"
    /\ LET extracted == extract_answer_details(resp)
       IN  IF extracted.none
           THEN tasks' = [tasks EXCEPT ![i] = Advance(@)]
           ELSE tasks' = [tasks EXCEPT ![i] =
                            [@ EXCEPT !.pc = "sleep",
                                      !.final_container.data.qa =
                                          <<qa_pair(tasks[i].questions[tasks[i].idx],
                                                    extracted.val)>> \o @,
                                      !.ok = @ \cup {tasks[i].idx}]]
    /\ UNCHANGED <<jobs, submitted, http_response, qg, ex>>

\* the extraction call for question idx returns
ExtractReturn(i, resp) ==
    /\ tasks[i].pc = "extract_call"
    /\ LET extracted == extract_answer_details(resp)
       IN  IF extracted.none
           THEN tasks' = [tasks EXCEPT ![i] = Advance(@)]
           ELSE tasks' = [tasks EXCEPT ![i] =
                            [@ EXCEPT !.pc = "sleep",
                                      !.final_container.data.qa =
                                          Append(@, qa_pair(tasks[i].questions[tasks[i].idx],
                                                            extracted.val)),
                                      !.ok = @ \cup {tasks[i].idx}]]
    /\ UNCHANGED <<jobs, submitted, http_response, qg, ex>>

\* time.sleep(1) returns
SleepReturn(i) ==
    /\ tasks[i].pc = "sleep"
    /\ tasks' = [tasks EXCEPT ![i] = Advance(@)]
    /\ UNCHANGED <<jobs, submitted, http_response, qg, ex>>

PostReturn_Strict(i, outcome) ==
    /\ tasks[i].pc = "post_call"
    /\ tasks' = [tasks EXCEPT ![i] =
          Ended([@ EXCEPT !.push_error = (outcome # "200")], "done")]
    /\ jobs' = Put(jobs, tasks[i].job_id,
                   IF outcome = "200"
                   THEN Entry("completed", <<json_dumps(tasks[i].final_container)>>)
                   ELSE Entry("failed", <<>>))
    /\ UNCHANGED <<submitted, http_response, qg, ex>>

\* requests.post returns or raises; the job is recorded
PostReturn(i, outcome) ==
    /\ tasks[i].pc = "post_call"
    /\ tasks' = [tasks EXCEPT ![i] =
          Ended([@ EXCEPT !.push_error = (outcome # "200")], "done")]
    /\ jobs' = Put(jobs, tasks[i].job_id,
                   Entry("completed", <<json_dumps(tasks[i].final_container)>>))
    /\ UNCHANGED <<submitted, http_response, qg, ex>>

\* an exception that `except Exception` does not catch ends the task
TaskUncaught(i) ==
    /\ tasks[i].pc \in {"qgen_call", "answer_call", "extract_call", "sleep", "post_call"}
    /\ tasks' = [tasks EXCEPT ![i] = Ended(@, "crashed")]
    /\ UNCHANGED <<jobs, submitted, http_response, qg, ex>>

\* no call of the question generator, of the detail extractor, on its own
NoCall == [resp |-> Raised, n |-> 0, out |-> NoneOf(<<>>), pc |-> "idle"]
NoDetails == [resp |-> Raised, out |-> NoneOf(NoDoc), pc |-> "idle"]

Init ==
    /\ jobs = <<>>
    /\ tasks = <<>>
    /\ submitted = {}
    /\ http_response = NoResponse
    /\ qg = NoCall
    /\ ex = NoDetails

Next ==
    \/ \E request \in QNARequest : Len(tasks) < MaxTasks /\ generate_qna(request)
    \/ \E job_id \in JobIds : get_status(job_id)
    \/ \E i \in 1..Len(tasks) : StartTask(i)
    \/ \E i \in 1..Len(tasks), resp \in QuestionResponses : QuestionsReturn(i, resp)
    \/ \E i \in 1..Len(tasks), resp \in AnswerResponses : AnswerReturn(i, resp)
    \/ \E i \in 1..Len(tasks), resp \in ExtractResponses : ExtractReturn(i, resp)
    \/ \E i \in 1..Len(tasks) : SleepReturn(i)
    \/ \E i \in 1..Len(tasks), outcome \in PostOutcomes : PostReturn(i, outcome)
    \/ \E i \in 1..Len(tasks) : TaskUncaught(i)

Spec == Init /\ [][Next]_vars

\* one submission and its background task, polled at any time
NextJob ==
    \/ \E request \in QNARequest : tasks = <<>> /\ generate_qna(request)
    \/ \E job_id \in JobIds : get_status(job_id)
    \/ \E i \in 1..Len(tasks) : StartTask(i)
    \/ \E i \in 1..Len(tasks), resp \in QuestionResponses : QuestionsReturn(i, resp)
    \/ \E i \in 1..Len(tasks), resp \in AnswerResponses : AnswerReturn(i, resp)
    \/ \E i \in 1..Len(tasks), resp \in ExtractResponses : ExtractReturn(i, resp)
    \/ \E i \in 1..Len(tasks) : SleepReturn(i)
    \/ \E i \in 1..Len(tasks), outcome \in PostOutcomes : PostReturn(i, outcome)
    \/ \E i \in 1..Len(tasks) : TaskUncaught(i)

SpecJob == Init /\ [][NextJob]_vars

\* the orchestrator on its own: generate_final_qna_container called for a
\* registered job with any target pair count up to MaxPairs
InitOrch ==
    /\ \E request \in QNARequest, n \in 0..MaxPairs :
          /\ jobs = Put(<<>>, request.id, Entry("processing", <<>>))
          /\ tasks = <<[NewTask(request) EXCEPT !.num_pairs = n]>>
          /\ submitted = {request.id}
    /\ http_response = NoResponse
    /\ qg = NoCall
    /\ ex = NoDetails

NextOrch ==
    \/ \E i \in 1..Len(tasks) : StartTask(i)
    \/ \E i \in 1..Len(tasks), resp \in QuestionResponses : QuestionsReturn(i, resp)
    \/ \E i \in 1..Len(tasks), resp \in AnswerResponses : AnswerReturn(i, resp)
    \/ \E i \in 1..Len(tasks), resp \in ExtractResponses : ExtractReturn(i, resp)
    \/ \E i \in 1..Len(tasks) : SleepReturn(i)
    \/ \E i \in 1..Len(tasks), outcome \in PostOutcomes : PostReturn(i, outcome)
    \/ \E i \in 1..Len(tasks) : TaskUncaught(i)

SpecOrch == InitOrch /\ [][NextOrch]_vars

\* a step of background task i: a call of its returns or raises, its sleep ends
TaskStep(i) ==
    /\ i \in 1..Len(tasks)
    /\ \/ StartTask(i)
       \/ \E resp \in QuestionResponses : QuestionsReturn(i, resp)
       \/ \E resp \in AnswerResponses : AnswerReturn(i, resp)
       \/ \E resp \in ExtractResponses : ExtractReturn(i, resp)
       \/ SleepReturn(i)
       \/ \E outcome \in PostOutcomes : PostReturn(i, outcome)
       \/ TaskUncaught(i)

\* the thread pool runs every scheduled task and every call comes back
SpecJobFair == SpecJob /\ \A i \in 1..MaxTasks : WF_vars(TaskStep(i))

---------------------------------------------------------------------------
(* The question generator and the detail extractor on their own: one call  *)
(* each, on every reply up to the bounds                                   *)

Seqs(S, n) == UNION { [1..k -> S] : k \in 0..n }

Reverse(l) == [k \in 1..Len(l) |-> l[Len(l) + 1 - k]]

\* what may stand before and after the body: at most MaxDeco chunks in all
Decorations ==
    { d \in Seqs({FJ, F, WS, X}, MaxDeco) \X Seqs({FJ, F, WS, X}, MaxDeco) :
        Len(d[1]) + Len(d[2]) <= MaxDeco }

\* a failed call, and the replies <pre, doc, post> and <pre, post>
Decorated(docs) ==
    {Raised} \cup
    { Content(d[1] \o body \o d[2]) :
        d \in Decorations, body \in {<<>>} \cup { <<J(doc)>> : doc \in docs } }

QuestionDocs ==
    { JList(SubSeq(QNames, 1, k)) : k \in 0..(MaxN + 1) }
    \cup { JList(Reverse(SubSeq(QNames, 1, k))) : k \in 0..(MaxN + 1) }
    \cup { JStr("q1"), GoodDetails }

DetailDocs ==
    { JDict(a, f, p, c) :
        a \in {Absent, Str(""), Str("ans")},
        f \in {Str("f1"), List(<<>>), List(<<"f1">>), List(<<"f1", "f2">>)},
        p \in {Absent, List(<<"p1", "p2">>), List(<<"p1", "p2", "p3">>),
               List(<<"p1", "p2", "p3", "p4">>)},
        c \in {List(<<"c1">>), List(<<"c1", "c2">>), List(<<"c1", "c2", "c3">>)} }
    \cup { JStr("ans"), JList(<<"p1", "p2", "p3">>) }

InitQG ==
    /\ jobs = <<>>
    /\ tasks = <<>>
    /\ submitted = {}
    /\ http_response = NoResponse
    /\ qg \in { [resp |-> r, n |-> n, out |-> NoneOf(<<>>), pc |-> "call"] :
                   r \in Decorated(QuestionDocs), n \in 0..MaxN }
    /\ ex = NoDetails

\* generate_bulk_questions(raw_text, question_prompt, num_questions = n) returns
BulkQuestionsReturn ==
    /\ qg.pc = "call"
    /\ qg' = [qg EXCEPT !.out = generate_bulk_questions(qg.resp, qg.n),
                        !.pc = "returned"]
    /\ UNCHANGED <<jobs, tasks, submitted, http_response, ex>>

NextQG == BulkQuestionsReturn

SpecQG == InitQG /\ [][NextQG]_vars

InitEX ==
    /\ jobs = <<>>
    /\ tasks = <<>>
    /\ submitted = {}
    /\ http_response = NoResponse
    /\ qg = NoCall
    /\ ex \in { [resp |-> r, out |-> NoneOf(NoDoc), pc |-> "call"] :
                   r \in Decorated(DetailDocs) }

\* extract_answer_details(answer_text, question) returns
AnswerDetailsReturn ==
    /\ ex.pc = "call"
    /\ ex' = [ex EXCEPT !.out = extract_answer_details(ex.resp), !.pc = "returned"]
    /\ UNCHANGED <<jobs, tasks, submitted, http_response, qg>>

NextEX == AnswerDetailsReturn

SpecEX == InitEX /\ [][NextEX]_vars

---------------------------------------------------------------------------
(* Properties *)

Tasks == 1..Len(tasks)
Terminal == {"completed", "failed"}
Statuses == {"processing", "completed", "failed"}
InLoop == {"answer_call", "extract_call", "sleep", "post_call"}
qa_of(t) == t.final_container.data.qa

\* C1: the stored status of an id only moves processing -> completed or
\* processing -> failed, and a completed or failed entry never changes again,
\* whatever submissions, polls and task steps occur (the same id submitted
\* again included).
C1_TerminalEntryIsFinal ==
    [][\A j \in DOMAIN jobs :
          /\ j \in DOMAIN jobs'
          /\ \/ jobs'[j] = jobs[j]
             \/ jobs[j].status = "processing" /\ jobs'[j].status \in Terminal]_vars

\* C2: GET /api/status/{job_id} answers 404 exactly for the ids never submitted,
\* and for a submitted id answers 200 with a status among processing, completed,
\* failed; entries are never removed.
C2_StatusKnownIffSubmitted ==
    /\ DOMAIN jobs = submitted
    /\ \A j \in JobIds :
          LET r == StatusOf(j)
          IN  /\ r.code = 404 <=> j \notin submitted
              /\ j \in submitted => r.code = 200 /\ r.status \in Statuses

C2_Witness ==
    /\ http_response = Response("status", 404, "b", "", FALSE)
    /\ submitted = {"a"}
    /\ jobs["a"].status = "completed"

\* C3: POST /api/generate registers the job as processing without a result,
\* schedules exactly one background task that has issued no call, steps no
\* other task and answers {job_id, processing}; every task belongs to a
\* registered job and has issued no call before it starts.
C3_SubmitOnlyRegisters ==
    /\ [][\A request \in QNARequest :
            generate_qna(request) =>
              /\ jobs'[request.id] = Entry("processing", <<>>)
              /\ Len(tasks') = Len(tasks) + 1
              /\ SubSeq(tasks', 1, Len(tasks)) = tasks
              /\ tasks'[Len(tasks')] = NewTask(request)
              /\ tasks'[Len(tasks')].calls = [q |-> 0, a |-> 0, e |-> 0, d |-> 0]
              /\ tasks'[Len(tasks')].pc = "scheduled"
              /\ http_response' =
                    Response("generate", 200, request.id, "processing", FALSE)]_vars
    /\ [](\A i \in Tasks :
            /\ tasks[i].job_id \in DOMAIN jobs
            /\ tasks[i].pc = "scheduled" =>
                  tasks[i].calls = [q |-> 0, a |-> 0, e |-> 0, d |-> 0])

C3_Witness ==
    /\ Len(tasks) = 2
    /\ tasks[1].job_id = tasks[2].job_id
    /\ tasks[1].pc = "answer_call"
    /\ tasks[2].pc = "scheduled"
    /\ http_response = Response("generate", 200, tasks[2].job_id, "processing", FALSE)
    /\ jobs[tasks[2].job_id] = Entry("processing", <<>>)

\* C4: when the bulk-question call fails (call error, non-JSON reply, array of
\* the wrong length) the task records the job as failed without a result and
\* ends having issued no answer call, no extraction call and no delivery POST;
\* a task that has ended issues nothing more.
C4_QuestionFailureFailsJob ==
    /\ [][\A i \in Tasks : \A resp \in QuestionResponses \ {GoodQuestionsReply} :
            QuestionsReturn(i, resp) =>
              /\ jobs'[tasks[i].job_id] = Entry("failed", <<>>)
              /\ tasks'[i].pc = "done"
              /\ tasks'[i].calls = [q |-> 1, a |-> 0, e |-> 0, d |-> 0]]_vars
    /\ [][\A i \in Tasks :
            tasks[i].pc \in {"done", "crashed"} => tasks'[i] = tasks[i]]_vars

C4_Witness ==
    \E i \in Tasks :
        /\ tasks[i].pc = "done"
        /\ tasks[i].calls = [q |-> 1, a |-> 0, e |-> 0, d |-> 0]
        /\ jobs[tasks[i].job_id] = Entry("failed", <<>>)

\* C5: once the questions are generated, a failed answer or extraction for
\* question idx leaves the container and the job record alone and moves on to
\* question idx + 1 (to the delivery after the last one); the delivery is
\* reached only after all NumQuestions questions had their answer call, and a
\* task that returns from the loop records completed with a result, also when
\* no pair was assembled.
C5_QuestionFailureIsSkipped ==
    /\ [][\A i \in Tasks :
            (\/ \E resp \in AnswerResponses \ {GoodAnswerReply} : AnswerReturn(i, resp)
             \/ \E resp \in ExtractResponses \ {GoodDetailsReply} : ExtractReturn(i, resp))
            =>
              /\ jobs' = jobs
              /\ qa_of(tasks'[i]) = qa_of(tasks[i])
              /\ IF tasks[i].idx < NumQuestions
                 THEN tasks'[i].pc = "answer_call" /\ tasks'[i].idx = tasks[i].idx + 1
                 ELSE tasks'[i].pc = "post_call"]_vars
    /\ [][\A i \in Tasks :
            tasks[i].pc \in InLoop /\ tasks'[i].pc = "done" =>
              /\ tasks[i].idx = NumQuestions
              /\ tasks[i].calls.a = NumQuestions
              /\ jobs'[tasks[i].job_id].status = "completed"
              /\ jobs'[tasks[i].job_id].result =
                    <<json_dumps(tasks[i].final_container)>>]_vars

C5_Witness ==
    \E i \in Tasks :
        /\ tasks[i].pc = "done"
        /\ tasks[i].calls.a = NumQuestions
        /\ jobs[tasks[i].job_id].status = "completed"
        /\ jobs[tasks[i].job_id].result[1].text.data.qa = <<>>

\* the elements of a set of numbers in increasing order
RECURSIVE Sorted(_)
Sorted(S) ==
    IF S = {} THEN <<>>
    ELSE LET m == CHOOSE x \in S : \A y \in S : x <= y
         IN  <<m>> \o Sorted(S \ {m})

ValidPair(pair) ==
    /\ pair.answers.k = "str" /\ pair.answers.s # ""
    /\ pair.facet.k = "list" /\ Len(pair.facet.l) = 1
    /\ pair.pros.k = "list" /\ Len(pair.pros.l) = 3
    /\ pair.cons.k = "list" /\ Len(pair.cons.l) = 2

\* C6: data.qa holds, in the order of the generated questions, one pair for
\* each question whose answer and extraction both succeeded and nothing else;
\* every pair carries the validated fields of its extraction; a pair is appended
\* exactly when an extraction succeeds; with all questions succeeding its
\* length is NumQuestions.
C6_QaIsSuccessfulSubsequence ==
    /\ [](\A i \in Tasks :
            tasks[i].pc \in InLoop =>
              LET t == tasks[i]
                  kept == Sorted(t.ok)
              IN  /\ t.questions = GoodQuestions
                  /\ t.ok \subseteq 1..t.idx
                  /\ Len(qa_of(t)) = Len(kept)
                  /\ \A k \in 1..Len(kept) :
                        /\ qa_of(t)[k].question = t.questions[kept[k]]
                        /\ ValidPair(qa_of(t)[k])
                  /\ t.ok = 1..NumQuestions => Len(qa_of(t)) = NumQuestions)
    /\ [][\A i \in Tasks : \A resp \in ExtractResponses :
            ExtractReturn(i, resp) =>
              IF resp = GoodDetailsReply
              THEN /\ qa_of(tasks'[i]) =
                        Append(qa_of(tasks[i]),
                               [question |-> tasks[i].questions[tasks[i].idx],
                                answers |-> GoodDetails.answers,
                                facet |-> GoodDetails.facet,
                                pros |-> GoodDetails.pros,
                                cons |-> GoodDetails.cons])
                   /\ tasks'[i].ok = tasks[i].ok \cup {tasks[i].idx}
              ELSE /\ qa_of(tasks'[i]) = qa_of(tasks[i])
                   /\ tasks'[i].ok = tasks[i].ok]_vars
    /\ [][\A i \in Tasks :
            tasks[i].pc \in {"answer_call", "sleep"} /\ tasks'[i].pc \in InLoop =>
              /\ qa_of(tasks'[i]) = qa_of(tasks[i])
              /\ tasks'[i].ok = tasks[i].ok]_vars

C6_Witness ==
    \E i \in Tasks :
        /\ tasks[i].pc = "post_call"
        /\ tasks[i].ok = {NumQuestions}
        /\ Len(qa_of(tasks[i])) = 1
        /\ qa_of(tasks[i])[1].question = GoodQuestions[NumQuestions]

\* C7: whatever the delivery POST does (200, another status, a raised error),
\* the task records the job as completed with the serialized container as its
\* result, and touches no other entry.
C7_DeliveryOutcomeIgnored ==
    [][\A i \in Tasks : \A outcome \in PostOutcomes :
          PostReturn(i, outcome) =>
            /\ jobs'[tasks[i].job_id] =
                  Entry("completed", <<json_dumps(tasks[i].final_container)>>)
            /\ \A j \in DOMAIN jobs \ {tasks[i].job_id} : jobs'[j] = jobs[j]]_vars

C7_Witness ==
    \E i \in Tasks :
        /\ tasks[i].pc = "done"
        /\ tasks[i].push_error
        /\ jobs[tasks[i].job_id].status = "completed"
        /\ Len(jobs[tasks[i].job_id].result[1].text.data.qa) = NumQuestions

\* C8: a background task that ends with an uncaught exception leaves its job
\* recorded as failed, not as processing.
C8_UncaughtExceptionFailsJob ==
    \A i \in Tasks :
        tasks[i].pc = "crashed" => jobs[tasks[i].job_id].status = "failed"

\* the document a reply holds once its fences are stripped
ParsedReply(resp) ==
    IF resp.error THEN NoDoc ELSE json_loads(StripFence(resp.content))

\* C9: the question generator returns the array of the fence-stripped reply,
\* unchanged, exactly when the reply is a JSON array of num_questions elements;
\* a failed call, a reply that is no JSON, no array, or an array of another
\* length gives None.  In particular a bare or a ```json-fenced array of the
\* right length is returned, and noise or a fence without the json tag in front
\* of the array gives None.
C9_BulkQuestionsContract ==
    qg.pc = "returned" =>
      LET doc == ParsedReply(qg.resp)
          c == qg.resp.content
      IN  /\ IF doc.t = "list" /\ Len(doc.l) = qg.n
             THEN qg.out = Some(doc.l)
             ELSE qg.out = NoneOf(<<>>)
          /\ \A d \in QuestionDocs :
                (c = <<J(d)>> \/ c = <<FJ, J(d), F>> \/ c = <<WS, FJ, J(d), WS>>) =>
                  IF d.t = "list" /\ Len(d.l) = qg.n
                  THEN qg.out = Some(d.l)
                  ELSE qg.out.none
          /\ (\E k \in 1..Len(c) : c[k].kind = "x") => qg.out.none
          /\ (Len(c) > 1 /\ c[1].kind = "f" /\ c[2].kind = "json") => qg.out.none
          /\ qg.resp.error => qg.out.none

C9_Witness ==
    /\ qg.pc = "returned"
    /\ qg.n = 2
    /\ qg.resp = Content(<<FJ, J(JList(<<"q2", "q1">>)), F>>)
    /\ qg.out = Some(<<"q2", "q1">>)

\* C10: the detail extractor returns the parsed object, unchanged, exactly when
\* the fence-stripped reply is a JSON object whose facet is a list of 1, pros a
\* list of 3, cons a list of 2 and answers a non-empty string; any one of these
\* violated, an empty or non-JSON reply or a failed call gives None.
C10_DetailsContract ==
    ex.pc = "returned" =>
      LET doc == ParsedReply(ex.resp)
          c == ex.resp.content
          valid(d) ==
              /\ d.t = "dict"
              /\ d.facet.k = "list" /\ Len(d.facet.l) = 1
              /\ d.pros.k = "list" /\ Len(d.pros.l) = 3
              /\ d.cons.k = "list" /\ Len(d.cons.l) = 2
              /\ d.answers.k = "str" /\ d.answers.s # ""
      IN  /\ IF valid(doc) THEN ex.out = Some(doc) ELSE ex.out = NoneOf(NoDoc)
          /\ \A d \in DetailDocs :
                (c = <<J(d)>> \/ c = <<FJ, J(d), F>> \/ c = <<WS, FJ, J(d), WS>>) =>
                  IF valid(d) THEN ex.out = Some(d) ELSE ex.out.none
          /\ (\E k \in 1..Len(c) : c[k].kind = "x") => ex.out.none
          /\ (ex.resp.error \/ c = <<>> \/ c = <<FJ, F>>) => ex.out.none

C10_Witness ==
    /\ ex.pc = "returned"
    /\ ex.resp = Content(<<FJ, J([GoodDetails EXCEPT !.facet = List(<<"f1", "f2">>)]), F>>)
    /\ ex.out.none

\* C11: within one job a sleep separates every two consecutive questions: an
\* answer call for a question after the first is issued only when the sleep
\* that follows the previous question's iteration ends, whether that question
\* was appended or skipped.
C11_SleepBetweenQuestions ==
    [][\A i \in Tasks :
          (i \in 1..Len(tasks') /\ tasks'[i].pc = "answer_call"
             /\ tasks'[i].idx > 1 /\ tasks'[i].idx # tasks[i].idx)
          => tasks[i].pc = "sleep"]_vars

\* C12: for every target pair count passed to the orchestrator the question
\* generator is asked for exactly that many questions, the count-mismatch
\* warning is logged exactly when the number of assembled pairs differs from it,
\* and a run in which every question succeeds assembles exactly that many pairs
\* without a warning.
C12_TargetCountIsAsked ==
    \A i \in Tasks :
        LET t == tasks[i]
        IN  /\ t.pc # "scheduled" => t.asked = t.num_pairs
            /\ t.pc = "post_call" =>
                  /\ t.warned <=> Len(qa_of(t)) # t.num_pairs
                  /\ t.ok = 1..Len(t.questions) =>
                        Len(qa_of(t)) = t.num_pairs /\ ~t.warned

\* C13: a background task issues the bulk-question call exactly once, one
\* answer call per question reached and at most one extraction call for it, and
\* at most one delivery POST, hence at most 1 + 2 * NumQuestions LLM calls; it
\* never goes back to a question, so a failed call is not issued again.
C13_NothingRetried ==
    /\ [](\A i \in Tasks :
            LET t == tasks[i]
            IN  /\ t.calls.q = IF t.pc = "scheduled" THEN 0 ELSE 1
                /\ t.calls.d <= 1
                /\ t.calls.e <= t.calls.a /\ t.calls.a <= NumQuestions
                /\ t.calls.q + t.calls.a + t.calls.e <= 1 + 2 * NumQuestions
                /\ t.pc \in {"answer_call", "extract_call", "sleep"} =>
                      t.calls.a = t.idx
                /\ t.pc = "post_call" => t.calls.a = NumQuestions /\ t.calls.d = 1)
    /\ [][\A i \in Tasks :
            LET t == tasks[i]
                u == tasks'[i]
            IN  /\ u.calls.q >= t.calls.q /\ u.calls.d >= t.calls.d
                /\ u.calls.a \in {t.calls.a, t.calls.a + 1}
                /\ u.calls.e \in {t.calls.e, t.calls.e + 1}
                /\ u.calls.a = t.calls.a + 1 =>
                      u.pc = "answer_call" /\ u.idx = t.idx + 1
                /\ u.calls.e = t.calls.e + 1 =>
                      t.pc = "answer_call" /\ u.pc = "extract_call" /\ u.idx = t.idx
                /\ u.pc \in InLoop /\ t.pc \in InLoop => u.idx >= t.idx]_vars

C13_Witness ==
    \E i \in Tasks :
        /\ tasks[i].pc = "post_call"
        /\ tasks[i].calls = [q |-> 1, a |-> NumQuestions, e |-> 1, d |-> 1]
        /\ tasks[i].ok = {}

\* C14: the calls of one task are issued one after the other in order: while
\* the bulk-question call is outstanding nothing else has been issued; an answer
\* call is issued only once the questions are there and while it is outstanding
\* the extraction for its question has not been issued; an extraction call is
\* issued only on a non-empty answer for the same question; the next answer call
\* only after the question was appended or skipped; the delivery POST only after
\* the last question was handled.
C14_CallsAreSequential ==
    /\ [](\A i \in Tasks :
            LET t == tasks[i]
            IN  /\ t.pc = "qgen_call" => t.calls = [q |-> 1, a |-> 0, e |-> 0, d |-> 0]
                /\ t.pc \in InLoop => t.questions # <<>> /\ t.calls.q = 1
                /\ t.pc = "answer_call" =>
                      t.calls.a = t.idx /\ t.calls.e <= t.idx - 1 /\ t.calls.d = 0
                        /\ t.idx \notin t.ok
                /\ t.pc = "extract_call" =>
                      t.answer_text # <<>> /\ t.calls.a = t.idx
                        /\ t.calls.e <= t.idx /\ t.calls.d = 0 /\ t.idx \notin t.ok
                /\ t.pc = "sleep" => t.idx \in t.ok /\ t.calls.d = 0
                /\ t.pc = "post_call" =>
                      t.idx = Len(t.questions) /\ t.calls.a = Len(t.questions))
    /\ [][\A i \in Tasks :
            LET t == tasks[i]
                u == tasks'[i]
            IN  /\ (u.pc = "extract_call" /\ t.pc # "extract_call") =>
                      t.pc = "answer_call" /\ u.idx = t.idx
                /\ (u.pc = "answer_call" /\ u.idx # t.idx) =>
                      \/ t.pc = "qgen_call" /\ u.idx = 1
                      \/ t.pc \in {"answer_call", "extract_call", "sleep"}
                           /\ u.idx = t.idx + 1
                /\ (u.pc = "post_call" /\ t.pc # "post_call") =>
                      t.pc \in {"answer_call", "extract_call", "sleep"}
                        /\ t.idx = Len(t.questions)]_vars

C14_Witness ==
    \E i \in Tasks :
        /\ tasks[i].pc = "extract_call"
        /\ tasks[i].idx = NumQuestions
        /\ tasks[i].calls = [q |-> 1, a |-> NumQuestions, e |-> 1, d |-> 0]

JobOf(d, j) == IF j \in DOMAIN d THEN <<d[j]>> ELSE <<>>

\* C15: jobs with distinct ids do not interfere: a step changes at most one
\* task (or adds one), leaves the jobs entry of every other id as it was, and
\* an entry a task writes is failed or completed with that task's own
\* container; a stored container carries the id it is stored under and the
\* prompts of a submission of that id.
C15_DistinctIdsDoNotInterfere ==
    /\ [](\A j \in DOMAIN jobs :
            jobs[j].status = "completed" =>
                /\ jobs[j].result # <<>>
                /\ jobs[j].result[1].text.id = j
                /\ \E i \in Tasks :
                      /\ tasks[i].job_id = j
                      /\ tasks[i].question_prompt = jobs[j].result[1].text.question_prompt
                      /\ tasks[i].answer_prompt = jobs[j].result[1].text.answer_prompt)
    /\ [][LET moved == {i \in Tasks : tasks'[i] # tasks[i]}
              added == (Len(tasks) + 1)..Len(tasks')
              ids   == {tasks[i].job_id : i \in moved}
                         \cup {tasks'[k].job_id : k \in added}
          IN  /\ Len(tasks') >= Len(tasks)
              /\ Cardinality(moved) + Cardinality(added) <= 1
              /\ \A j \in JobIds \ ids : JobOf(jobs', j) = JobOf(jobs, j)
              /\ submitted' \ submitted \subseteq ids
              /\ \A i \in moved :
                    /\ tasks'[i].job_id = tasks[i].job_id
                    /\ jobs' # jobs =>
                          \/ jobs' = Put(jobs, tasks[i].job_id, Entry("failed", <<>>))
                          \/ jobs' = Put(jobs, tasks[i].job_id,
                                Entry("completed",
                                      <<json_dumps(tasks[i].final_container)>>))]_vars

C15_Witness ==
    \E i, k \in Tasks :
        /\ tasks[i].job_id # tasks[k].job_id
        /\ tasks[i].pc = "done" /\ jobs[tasks[i].job_id].status = "completed"
        /\ Len(jobs[tasks[i].job_id].result[1].text.data.qa) = NumQuestions
        /\ tasks[k].pc = "answer_call" /\ jobs[tasks[k].job_id].status = "processing"

\* C16: for every registered id the stored result is present exactly when the
\* stored status is completed, and a status response carries a result exactly
\* when it reports completed.
C16_ResultIffCompleted ==
    /\ \A j \in DOMAIN jobs :
          /\ jobs[j].status \in Statuses
          /\ jobs[j].result # <<>> <=> jobs[j].status = "completed"
    /\ http_response.endpoint = "status" /\ http_response.code = 200 =>
          (http_response.has_result <=> http_response.status = "completed")

C16_Witness ==
    /\ http_response.endpoint = "status"
    /\ http_response.status = "completed" /\ http_response.has_result
    /\ \E j \in DOMAIN jobs : jobs[j].status = "failed" /\ jobs[j].result = <<>>

\* the task of the most recent submission of id j
LastTaskOf(j) ==
    CHOOSE i \in Tasks :
        /\ tasks[i].job_id = j
        /\ \A k \in Tasks : tasks[k].job_id = j => k <= i

\* C17: whenever the status stored for an id is completed, the stored result
\* is the container built from the most recent submission of that id: its
\* prompts are those of the latest POST /api/generate for the id and its id
\* field is the job id, also when the id is submitted again while an earlier
\* task for it is still running.
C17_ResultIsFromLatestSubmission ==
    \A j \in DOMAIN jobs :
        jobs[j].status = "completed" =>
            LET container == jobs[j].result[1].text
                t == tasks[LastTaskOf(j)]
            IN  /\ container.id = j
                /\ container.question_prompt = t.question_prompt
                /\ container.answer_prompt = t.answer_prompt

\* C18: the status of a job is set to completed only after its delivery POST
\* attempt has finished: while a delivery call for the id is outstanding the
\* stored status, and so what the status endpoint reports, is processing; once
\* it is completed no delivery for the id is outstanding; and for an id whose
\* status is failed the task of its submission issued no delivery POST.
C18_CompletedOnlyAfterDelivery ==
    \A i \in Tasks :
        LET j == tasks[i].job_id
        IN  /\ tasks[i].pc = "post_call" => jobs[j].status = "processing"
            /\ (jobs[j].status = "failed" /\ i = LastTaskOf(j)) =>
                  tasks[i].calls.d = 0

\* C19: under fair scheduling of the background tasks, every external call
\* returning, every submitted job eventually leaves processing: its status
\* eventually is completed or failed.
C19_EveryJobLeavesProcessing ==
    \A j \in JobIds :
        (j \in DOMAIN jobs /\ jobs[j].status = "processing")
            ~> (j \in DOMAIN jobs /\ jobs[j].status \in Terminal)

====
